---- MODULE Spec2Model ----
(***************************************************************************)
(* Workflow engine of the video editing agent team:                        *)
(*   Coordinator          (src/agents/coordinator.py)                      *)
(*   PipelineOrchestrator (src/agents/pipeline_orchestrator.py)            *)
(*                                                                         *)
(* The persisted plan (processing/coordinator/workflow_plan.json) is the   *)
(* variable workflow; the orchestrator's position in                       *)
(* run_complete_pipeline / execute_pipeline is pc.                         *)
(*                                                                         *)
(* Modelling assumptions:                                                  *)
(*  - reads and writes of the plan file succeed (the except branches of    *)
(*    update_workflow_step for I/O errors are taken in SpecIO only);       *)
(*  - scores are in tenths (7 is 0.7), timestamps are ticks of now;        *)
(*  - in Spec and SpecEngine the items of an inferred workflow_sequence    *)
(*    name pairwise distinct agents (spec.md section 3, "uniqueness        *)
(*    required"); selected_agents may still disagree with it;              *)
(*  - GEMINI_API_KEY is set (the checks before the try blocks pass).       *)
(***************************************************************************)
EXTENDS Integers, Sequences, FiniteSets, TLC

\* ---------------------------------------------------------------- bounds
NumAgents == 4      \* catalog agents the inference response may name
MaxSteps == 3       \* longest workflow_sequence of an inference response

\* ------------------------------------------------------------- constants
Catalog == <<"RICO", "DAVID", "SAIMON", "CLOE", "SHEYLA">>

Statuses == {"PENDING", "IN_PROGRESS", "COMPLETED", "FAILED", "SKIPPED"}

Terminal == {"COMPLETED", "FAILED", "SKIPPED"}

NoTime == 0

NoScore == -1

FallbackScore == 7

\* agents whose class _instantiate_agent can import and construct
Instantiable == {"DAVID", "RICO"}

EvalResponses == {"approve", "reject", "unparseable"}

\* a stage name that is not in the catalog
UnknownAgent == "UNKNOWN"

\* the ways an inference call ends without a usable JSON object: non-200
\* status, requests exception, json.loads error
InferenceFailures == {"http_error", "network_error", "unparseable"}

Min(a, b) == IF a < b THEN a ELSE b

Agents == {Catalog[k] : k \in 1..Min(NumAgents, Len(Catalog))}

\* names an inference response may use for a stage
ResponseNames == Agents \cup {UnknownAgent}

Range(s) == {s[k] : k \in DOMAIN s}

Reverse(s) == [k \in 1..Len(s) |-> s[Len(s) + 1 - k]]

Front(s) == SubSeq(s, 1, Len(s) - 1)

VARIABLES
  pc,                \* position of the orchestrator
  workflow,          \* persisted workflow_plan.json
  current_workflow,  \* PipelineOrchestrator.current_workflow (loaded copy)
  active_agents,     \* keys of PipelineOrchestrator.active_agents
  idx,               \* index of the step the for loop of execute_pipeline is at
  execution_log,     \* PipelineOrchestrator.execution_log
  feedback_files,    \* agents whose <agent>_feedback.json exists
  reports,           \* coordinator_final_report_*.json files written
  result,            \* "True"/"False" returned by run_complete_pipeline ("none" before)
  invoked,           \* executor invocations so far: <<[step, success]>>
  announced,         \* step last announced by _check_next_steps (0: none)
  last_ok,           \* what the last update_workflow_step call returned
  now,               \* clock read by time.time()
  agent_selection,   \* what select_required_agents returned in coordinate_processing
  inference,         \* how the inference calls of coordinate_processing ended
  call,              \* a function applied on its own: [fn, arg, ret]
  status_view        \* get_workflow_status calls since the plan was last written, and the last result

vars == <<pc, workflow, current_workflow, active_agents, idx, execution_log,
          feedback_files, reports, result, invoked, announced, last_ok, now,
          agent_selection, inference, call, status_view>>

\* ------------------------------------------------------ selector results
AgentsOf(ws) == [k \in 1..Len(ws) |-> ws[k].agent]

DistinctSeqs(n) ==
  {s \in [1..n -> ResponseNames] : \A a, b \in 1..n : a # b => s[a] # s[b]}

WorkflowSequences ==
  UNION {{[k \in 1..n |-> [agent |-> s[k], skippable |-> f[k]]] :
            s \in DistinctSeqs(n), f \in [1..n -> BOOLEAN]} : n \in 0..MaxSteps}

\* selected_agents lists an inference response may carry next to a
\* workflow_sequence naming the agents names: the same list, or one that
\* differs in length, order or content
SelectedFor(names) ==
  {names}
  \cup (IF Len(names) > 0 THEN {Front(names)} ELSE {})
  \cup {Reverse(names)}
  \cup (IF Len(names) > 0
        THEN {[names EXCEPT ![1] = a] : a \in Agents \ Range(names)}
        ELSE {})

\* the catalog agents not in names, in catalog order
RECURSIVE CatalogWithout(_, _)
CatalogWithout(names, k) ==
  IF k > Len(Catalog) THEN <<>>
  ELSE (IF Catalog[k] \in names THEN <<>> ELSE <<Catalog[k]>>)
       \o CatalogWithout(names, k + 1)

\* the selections a parsed inference response may be (returned unvalidated,
\* line 292)
Selections ==
  UNION {{[selected_agents |-> sa, workflow_sequence |-> ws,
           skipped_agents |-> CatalogWithout(Range(sa), 1),
           selection_method |-> "ai", error |-> "none"] :
            sa \in SelectedFor(AgentsOf(ws))} : ws \in WorkflowSequences}

\* FallbackSelection keeping only the agents that can be instantiated
FallbackSelectionPartial(error) ==
  [selected_agents |-> <<"RICO", "DAVID">>,
   workflow_sequence |-> <<[agent |-> "RICO", skippable |-> FALSE],
                           [agent |-> "DAVID", skippable |-> FALSE]>>,
   skipped_agents |-> <<>>,
   selection_method |-> "fallback_all", error |-> error]

\* the except branch of select_required_agents, lines 294-309
FallbackSelection(error) ==
  [selected_agents |-> Catalog,
   workflow_sequence |-> [k \in 1..Len(Catalog) |-> [agent |-> Catalog[k], skippable |-> FALSE]],
   skipped_agents |-> <<>>,
   selection_method |-> "fallback_all", error |-> error]

NoSelection ==
  [selected_agents |-> <<>>, workflow_sequence |-> <<>>, skipped_agents |-> <<>>,
   selection_method |-> "none", error |-> "none"]

\* what the inference call of select_required_agents gave back
SelectorResponses ==
  {[kind |-> "parsed", selection |-> sel] : sel \in Selections}
  \cup {[kind |-> k, selection |-> NoSelection] : k \in InferenceFailures}

\* select_required_agents, lines 253-309
SelectRequiredAgents(response) ==
  IF response.kind = "parsed" THEN response.selection
  ELSE FallbackSelection(response.kind)

\* ------------------------------------------------------------- the plan
NoWorkflow ==
  [exists |-> FALSE, selected_agents |-> <<>>, workflow_steps |-> <<>>,
   step_tracking |-> <<>>]

NewTracking(n) ==
  [step_number |-> n, status |-> "PENDING", started_at |-> NoTime,
   completed_at |-> NoTime, feedback_received |-> FALSE,
   evaluation_score |-> NoScore]

\* Dependencies naming the step itself instead of its predecessor
DependenciesSelf(step_number) == IF step_number = 1 THEN {} ELSE {step_number}

Dependencies(step_number) == IF step_number = 1 THEN {} ELSE {step_number - 1}

\* index of the last workflow item naming agent a (a later item overwrites
\* the step_tracking entry of an earlier one)
LastItemOf(ws, a) ==
  CHOOSE k \in 1..Len(ws) : ws[k].agent = a /\ \A j \in (k+1)..Len(ws) : ws[j].agent # a

\* Required ignoring the skippable mark
RequiredAlways(workflow_item) == TRUE

\* line 600
Required(workflow_item) == ~workflow_item.skippable

CreateWorkflowPlan(selection) ==
  LET ws == selection.workflow_sequence IN
  [exists |-> TRUE,
   selected_agents |-> selection.selected_agents,
   workflow_steps |->
     [n \in 1..Len(ws) |->
        [step_number |-> n, agent |-> ws[n].agent, status |-> "PENDING",
         required |-> Required(ws[n]), dependencies |-> Dependencies(n)]],
   step_tracking |->
     [a \in Range(AgentsOf(ws)) |-> NewTracking(LastItemOf(ws, a))]]

\* ------------------------------------------------------ _check_next_steps
StepsNumbered(steps, num) == {k \in 1..Len(steps) : steps[k].step_number = num}

DependenciesMet(steps, k) ==
  \A d \in steps[k].dependencies :
    /\ StepsNumbered(steps, d) # {}
    /\ LET dep == CHOOSE j \in StepsNumbered(steps, d) :
                    \A j2 \in StepsNumbered(steps, d) : j <= j2
       IN steps[dep].status = "COMPLETED"

PendingSteps(steps) == {k \in 1..Len(steps) : steps[k].status = "PENDING"}

\* the loop stops at the first PENDING step, whether or not it is available
CheckNextSteps(wf) ==
  LET steps == wf.workflow_steps
      pend == PendingSteps(steps)
  IN IF pend = {} THEN 0
     ELSE LET first == CHOOSE k \in pend : \A j \in pend : k <= j
          IN IF DependenciesMet(steps, first) THEN steps[first].step_number ELSE 0

\* --------------------------------------------------- update_workflow_step
FirstStepOf(steps, agent_name) ==
  CHOOSE k \in 1..Len(steps) :
    steps[k].agent = agent_name /\ \A j \in 1..(k-1) : steps[j].agent # agent_name

UpdateTracking(step_info, status, feedback_data, t) ==
  LET old_status == step_info.status
      s1 == [step_info EXCEPT !.status = status]
  IN IF status = "IN_PROGRESS" /\ old_status = "PENDING"
       THEN [s1 EXCEPT !.started_at = t]
     ELSE IF status \in {"COMPLETED", "FAILED"}
       THEN IF feedback_data # NoScore
              THEN [s1 EXCEPT !.completed_at = t, !.feedback_received = TRUE,
                              !.evaluation_score = feedback_data]
              ELSE [s1 EXCEPT !.completed_at = t]
     ELSE s1

UpdateStepsEvery(steps, agent_name, status) ==
  [k \in 1..Len(steps) |-> [steps[k] EXCEPT !.status = status]]

UpdateSteps(steps, agent_name, status) ==
  IF \E k \in 1..Len(steps) : steps[k].agent = agent_name
    THEN [steps EXCEPT ![FirstStepOf(steps, agent_name)].status = status]
    ELSE steps

UpdateWorkflowStep(wf, agent_name, status, feedback_data, t) ==
  IF ~wf.exists THEN [ok |-> FALSE, workflow |-> wf]
  ELSE IF agent_name \notin DOMAIN wf.step_tracking THEN [ok |-> FALSE, workflow |-> wf]
  ELSE [ok |-> TRUE,
        workflow |->
          [wf EXCEPT
             !.step_tracking[agent_name] =
                UpdateTracking(wf.step_tracking[agent_name], status, feedback_data, t),
             !.workflow_steps = UpdateSteps(wf.workflow_steps, agent_name, status)]]

\* ------------------------------------------------------ get_workflow_status
\* CountStatus counting every terminal step
CountStatusTerminal(steps, status) ==
  Cardinality({k \in 1..Len(steps) : steps[k].status \in Terminal})

CountStatus(steps, status) ==
  Cardinality({k \in 1..Len(steps) : steps[k].status = status})

\* progress_percentage is kept in whole percents (integer division)
GetWorkflowStatus(wf) ==
  IF ~wf.exists
    THEN [status |-> "NO_WORKFLOW", total_steps |-> 0, completed_steps |-> 0,
          failed_steps |-> 0, progress_percentage |-> 0,
          current_status |-> "none", step_tracking |-> <<>>]
    ELSE LET total_steps == Len(wf.workflow_steps)
             completed_steps == CountStatus(wf.workflow_steps, "COMPLETED")
             failed_steps == CountStatus(wf.workflow_steps, "FAILED")
         IN [status |-> "none", total_steps |-> total_steps,
             completed_steps |-> completed_steps, failed_steps |-> failed_steps,
             progress_percentage |->
               IF total_steps > 0 THEN (completed_steps * 100) \div total_steps ELSE 0,
             current_status |->
               IF completed_steps = total_steps THEN "COMPLETED" ELSE "IN_PROGRESS",
             step_tracking |-> wf.step_tracking]

\* ------------------------------------------------------ evaluate_agent_work
\* a key the evaluation does not have
NoDecision == "NONE"

NoMethod == "none"

\* responses that are a JSON object whose overall_score, if present, is a
\* number
ParsedResponses == {"approve", "reject", "conditional", "approve_low", "empty_object"}

\* responses that end in the except branch: a failed call, text that is no
\* JSON, JSON that is no object (evaluation.get raises, line 961), a score
\* that is no number (the :.2f format raises, line 961)
EvaluatorFailures == InferenceFailures \cup {"not_an_object", "score_not_a_number"}

EvaluatorResponses == ParsedResponses \cup EvaluatorFailures

\* the object json.loads gives for a response in ParsedResponses
ParsedEvaluation(agent_name, response) ==
  [agent_evaluated |-> agent_name,
   overall_score |->
     CASE response = "approve" -> 9
       [] response = "reject" -> 3
       [] response = "conditional" -> 6
       [] response = "approve_low" -> FallbackScore
       [] OTHER -> NoScore,
   coordinator_decision |->
     CASE response \in {"approve", "approve_low"} -> "APPROVE"
       [] response = "reject" -> "REJECT"
       [] response = "conditional" -> "CONDITIONAL_APPROVE"
       [] OTHER -> NoDecision,
   requires_reprocessing |-> response = "reject",
   evaluation_method |-> NoMethod,
   error |-> "none"]

\* FallbackEvaluation without evaluation_method
FallbackEvaluationUnmarked(agent_name, error) ==
  [agent_evaluated |-> agent_name, overall_score |-> FallbackScore,
   coordinator_decision |-> "APPROVE", requires_reprocessing |-> FALSE,
   evaluation_method |-> NoMethod, error |-> error]

\* the except branch, lines 966-976
FallbackEvaluation(agent_name, error) ==
  [agent_evaluated |-> agent_name, overall_score |-> FallbackScore,
   coordinator_decision |-> "APPROVE", requires_reprocessing |-> FALSE,
   evaluation_method |-> "fallback_basic", error |-> error]

\* response: what the inference call gave back
EvaluateAgentWork(agent_name, response) ==
  IF response \in ParsedResponses
    THEN ParsedEvaluation(agent_name, response)
    ELSE FallbackEvaluation(agent_name, response)

\* ----------------------------------------------- generate_coordinator_report
\* e.get('overall_score', 0)
ScoreOf(e) == IF e.overall_score = NoScore THEN 0 ELSE e.overall_score

RECURSIVE SumScores(_)
SumScores(evals) ==
  IF evals = <<>> THEN 0 ELSE ScoreOf(evals[1]) + SumScores(Tail(evals))

\* PipelineStatus asking for one approved agent only
PipelineStatusAnyApproved(approved_agents, total_agents) ==
  IF approved_agents > 0 THEN "COMPLETED" ELSE "NEEDS_ATTENTION"

\* line 1007
PipelineStatus(approved_agents, total_agents) ==
  IF approved_agents = total_agents THEN "COMPLETED" ELSE "NEEDS_ATTENTION"

\* average_pipeline_score is kept in hundredths of a tenth (integer division)
GenerateCoordinatorReport(agent_evaluations) ==
  LET total_agents == Len(agent_evaluations)
      approved_agents ==
        Cardinality({k \in 1..total_agents :
                       agent_evaluations[k].coordinator_decision = "APPROVE"})
      needs_reprocessing ==
        {k \in 1..total_agents : agent_evaluations[k].requires_reprocessing}
  IN [total_agents_evaluated |-> total_agents,
      agents_approved |-> approved_agents,
      average_pipeline_score |->
        IF total_agents > 0 THEN (SumScores(agent_evaluations) * 100) \div total_agents ELSE 0,
      pipeline_status |-> PipelineStatus(approved_agents, total_agents),
      requires_reprocessing |-> needs_reprocessing # {},
      agent_evaluations |-> agent_evaluations]

\* ------------------------------------------------ evaluate_complete_pipeline
\* evaluation['agent_name'] = agent_name, line 1083
WithAgentName(evaluation, agent_name) ==
  [agent_name |-> agent_name,
   agent_evaluated |-> evaluation.agent_evaluated,
   overall_score |-> evaluation.overall_score,
   coordinator_decision |-> evaluation.coordinator_decision,
   requires_reprocessing |-> evaluation.requires_reprocessing,
   evaluation_method |-> evaluation.evaluation_method,
   error |-> evaluation.error]

\* responses[k] is the inference response to the evaluation of the k-th agent
RECURSIVE EvaluateAgents(_, _, _)
EvaluateAgents(agents_to_evaluate, responses, files) ==
  IF agents_to_evaluate = <<>> THEN <<>>
  ELSE LET rest == EvaluateAgents(Tail(agents_to_evaluate), Tail(responses), files)
       IN IF agents_to_evaluate[1] \in files
            THEN <<WithAgentName(EvaluateAgentWork(agents_to_evaluate[1], responses[1]),
                                 agents_to_evaluate[1])>> \o rest
            ELSE rest

\* the reports on disk after evaluate_complete_pipeline(agents_to_evaluate)
EvaluateCompletePipeline(agents_to_evaluate, responses, files, old_reports) ==
  LET agent_evaluations == EvaluateAgents(agents_to_evaluate, responses, files)
  IN IF agent_evaluations # <<>>
       THEN Append(old_reports, GenerateCoordinatorReport(agent_evaluations))
       ELSE old_reports

\* ---------------------------------------------------- _generate_final_report
\* ExecutedAgents taking every agent of the plan instead of the logged ones
ExecutedAgentsAllSteps(log) ==
  [k \in 1..Len(current_workflow.workflow_steps) |-> current_workflow.workflow_steps[k].agent]

ExecutedAgents(log) == [k \in 1..Len(log) |-> log[k].agent]

\* ========================================================== the state machine
NoInference == [selection |-> "not_called", analysis |-> "not_called", strategy |-> "not_called"]

NoCall == [fn |-> "none", arg |-> <<>>, ret |-> <<>>, returned |-> FALSE]

NoView == [calls |-> 0, result |-> <<>>]

Init ==
  /\ pc = "init"
  /\ workflow = NoWorkflow
  /\ current_workflow = NoWorkflow
  /\ active_agents = {}
  /\ idx = 0
  /\ execution_log = <<>>
  /\ feedback_files = {}
  /\ reports = <<>>
  /\ result = "none"
  /\ invoked = <<>>
  /\ announced = 0
  /\ last_ok = FALSE
  /\ now = 1
  /\ agent_selection = NoSelection
  /\ inference = NoInference
  /\ call = NoCall
  /\ status_view = NoView

\* _update_step_status(agent_name, status): the orchestrator discards what
\* update_workflow_step returns
UpdateStepStatus(agent_name, status) ==
  LET r == UpdateWorkflowStep(workflow, agent_name, status, NoScore, now) IN
  /\ workflow' = r.workflow
  /\ announced' = IF r.ok THEN CheckNextSteps(r.workflow) ELSE announced
  /\ last_ok' = r.ok
  /\ now' = now + 1
  /\ status_view' = NoView

\* coordinate_processing, line 774: create_processing_strategy is called
\* only for these selections (and only if the chunks manifest exists)
NeedsStrategy(sel) ==
  "DAVID" \in Range(sel.selected_agents) \/ "SAIMON" \in Range(sel.selected_agents)

\* create_intelligent_plan returns True: coordinate_processing selects (by
\* inference or by the fallback), the instruction analysis succeeds, the
\* plan is built and saved, no strategy call fails, and the plan is loaded
CreateIntelligentPlan ==
  /\ pc = "init"
  /\ \E response \in SelectorResponses :
       LET sel == SelectRequiredAgents(response) IN
       /\ agent_selection' = sel
       /\ inference' = [selection |-> response.kind, analysis |-> "ok", strategy |-> "ok"]
       /\ workflow' = CreateWorkflowPlan(sel)
       /\ current_workflow' = CreateWorkflowPlan(sel)
  /\ pc' = "planned"
  /\ UNCHANGED <<active_agents, idx, execution_log, feedback_files, reports,
                 result, invoked, announced, last_ok, now, call, status_view>>

\* coordinate_processing raises and create_intelligent_plan returns False:
\* _analyze_with_ai re-raises every failure of its inference call (line
\* 439) before the plan is built; create_processing_strategy raises after
\* the plan was saved
CreateIntelligentPlanFails ==
  /\ pc = "init"
  /\ \E response \in SelectorResponses, stage \in {"analysis", "strategy"},
        kind \in InferenceFailures :
       LET sel == SelectRequiredAgents(response) IN
       /\ stage = "strategy" => NeedsStrategy(sel)
       /\ agent_selection' = sel
       /\ inference' = [selection |-> response.kind,
                        analysis |-> IF stage = "analysis" THEN kind ELSE "ok",
                        strategy |-> IF stage = "strategy" THEN kind ELSE "not_called"]
       /\ workflow' = IF stage = "strategy" THEN CreateWorkflowPlan(sel) ELSE workflow
  /\ pc' = "aborted"
  /\ result' = "False"
  /\ UNCHANGED <<current_workflow, active_agents, idx, execution_log,
                 feedback_files, reports, invoked, announced, last_ok, now,
                 call, status_view>>

\* instantiate_selected_agents: each import may fail
InstantiateSelectedAgents ==
  /\ pc = "planned"
  /\ \E act \in SUBSET (Instantiable \cap Range(current_workflow.selected_agents)) :
       /\ active_agents' = act
       /\ IF act # {}
            THEN pc' = "loop" /\ idx' = 1 /\ result' = result
            ELSE pc' = "aborted" /\ idx' = idx /\ result' = "False"
  /\ UNCHANGED <<workflow, current_workflow, execution_log, feedback_files,
                 reports, invoked, announced, last_ok, now,
                 agent_selection, inference, call, status_view>>

AtStep == pc = "loop" /\ idx <= Len(current_workflow.workflow_steps)

CurrentStep == current_workflow.workflow_steps[idx]

\* execute_pipeline, lines 212-215
SkipStep ==
  /\ AtStep
  /\ CurrentStep.agent \notin active_agents
  /\ UpdateStepStatus(CurrentStep.agent, "SKIPPED")
  /\ idx' = idx + 1
  /\ UNCHANGED <<pc, current_workflow, active_agents, execution_log,
                 feedback_files, reports, result, invoked,
                 agent_selection, inference, call>>

\* execute_pipeline, line 218
StartStep ==
  /\ AtStep
  /\ CurrentStep.agent \in active_agents
  /\ UpdateStepStatus(CurrentStep.agent, "IN_PROGRESS")
  /\ pc' = "exec"
  /\ UNCHANGED <<idx, current_workflow, active_agents, execution_log,
                 feedback_files, reports, result, invoked,
                 agent_selection, inference, call>>

\* _execute_agent: a successful executor has written its feedback file, a
\* failing one may have
ExecuteAgent ==
  /\ pc = "exec"
  /\ \E success \in BOOLEAN, wrote \in BOOLEAN :
       /\ success => wrote
       /\ feedback_files' = IF wrote THEN feedback_files \cup {CurrentStep.agent}
                            ELSE feedback_files
       /\ invoked' = Append(invoked, [step |-> idx, success |-> success])
       /\ pc' = IF success THEN "feedback" ELSE "failed"
  /\ UNCHANGED <<workflow, current_workflow, active_agents, idx, execution_log,
                 reports, result, announced, last_ok, now,
                 agent_selection, inference, call, status_view>>

\* _process_agent_feedback
ProcessAgentFeedback ==
  /\ pc = "feedback"
  /\ IF CurrentStep.agent \in feedback_files
       THEN \E response \in EvalResponses :
              LET evaluation == EvaluateAgentWork(CurrentStep.agent, response) IN
              execution_log' = Append(execution_log,
                [agent |-> CurrentStep.agent, feedback_processed |-> TRUE,
                 evaluation_score |-> ScoreOf(evaluation),
                 coordinator_decision |->
                   IF evaluation.coordinator_decision = NoDecision
                     THEN "UNKNOWN" ELSE evaluation.coordinator_decision])
       ELSE execution_log' = execution_log
  /\ pc' = "complete"
  /\ UNCHANGED <<workflow, current_workflow, active_agents, idx, feedback_files,
                 reports, result, invoked, announced, last_ok, now,
                 agent_selection, inference, call, status_view>>

\* CompleteStep without the status update of line 226
CompleteStepNoUpdate ==
  /\ pc = "complete"
  /\ idx' = idx + 1
  /\ pc' = "loop"
  /\ UNCHANGED <<workflow, current_workflow, active_agents, execution_log,
                 feedback_files, reports, result, invoked, announced, last_ok, now,
                 agent_selection, inference, call, status_view>>

\* execute_pipeline, line 226
CompleteStep ==
  /\ pc = "complete"
  /\ UpdateStepStatus(CurrentStep.agent, "COMPLETED")
  /\ idx' = idx + 1
  /\ pc' = "loop"
  /\ UNCHANGED <<current_workflow, active_agents, execution_log, feedback_files,
                 reports, result, invoked,
                 agent_selection, inference, call>>

\* FailStep without the status update of line 229
FailStepNoMark ==
  /\ pc = "failed"
  /\ IF CurrentStep.required
       THEN pc' = "halted" /\ result' = "False" /\ idx' = idx
       ELSE pc' = "loop" /\ result' = result /\ idx' = idx + 1
  /\ UNCHANGED <<workflow, current_workflow, active_agents, execution_log,
                 feedback_files, reports, invoked, announced, last_ok, now,
                 agent_selection, inference, call, status_view>>

\* FailStep with the test of line 233 inverted
FailStepInverted ==
  /\ pc = "failed"
  /\ UpdateStepStatus(CurrentStep.agent, "FAILED")
  /\ IF ~CurrentStep.required
       THEN pc' = "halted" /\ result' = "False" /\ idx' = idx
       ELSE pc' = "loop" /\ result' = result /\ idx' = idx + 1
  /\ UNCHANGED <<current_workflow, active_agents, execution_log, feedback_files,
                 reports, invoked,
                 agent_selection, inference, call>>

\* execute_pipeline, lines 229-237
FailStep ==
  /\ pc = "failed"
  /\ UpdateStepStatus(CurrentStep.agent, "FAILED")
  /\ IF CurrentStep.required
       THEN pc' = "halted" /\ result' = "False" /\ idx' = idx
       ELSE pc' = "loop" /\ result' = result /\ idx' = idx + 1
  /\ UNCHANGED <<current_workflow, active_agents, execution_log, feedback_files,
                 reports, invoked,
                 agent_selection, inference, call>>

\* execute_pipeline, lines 239-242, with _generate_final_report, and the
\* get_pipeline_status call that follows in run_complete_pipeline (line 367)
FinishPipeline ==
  /\ pc = "loop"
  /\ idx > Len(current_workflow.workflow_steps)
  /\ LET executed_agents == ExecutedAgents(execution_log) IN
       IF executed_agents # <<>>
         THEN \E responses \in [1..Len(executed_agents) -> EvalResponses] :
                reports' = EvaluateCompletePipeline(executed_agents, responses,
                                                    feedback_files, reports)
         ELSE reports' = reports
  /\ pc' = "finished"
  /\ result' = "True"
  /\ status_view' = [calls |-> 1, result |-> GetWorkflowStatus(workflow)]
  /\ UNCHANGED <<workflow, current_workflow, active_agents, idx, execution_log,
                 feedback_files, invoked, announced, last_ok, now,
                 agent_selection, inference, call>>

Next ==
  \/ CreateIntelligentPlan
  \/ CreateIntelligentPlanFails
  \/ InstantiateSelectedAgents
  \/ SkipStep
  \/ StartStep
  \/ ExecuteAgent
  \/ ProcessAgentFeedback
  \/ CompleteStep
  \/ FailStep
  \/ FinishPipeline

Spec == Init /\ [][Next]_vars

\* ------------------------------------- the run with plan-file I/O failing
MaxIOSteps == 2     \* longest plan of a run with failing plan-file I/O

\* the parsed selections of at most MaxIOSteps catalog agents whose
\* selected_agents agree with the workflow_sequence
IOSelections ==
  {sel \in Selections :
     /\ Len(sel.workflow_sequence) <= MaxIOSteps
     /\ sel.selected_agents = AgentsOf(sel.workflow_sequence)
     /\ UnknownAgent \notin Range(sel.selected_agents)}

\* create_intelligent_plan returning True on one of IOSelections
CreateIntelligentPlanIO ==
  /\ pc = "init"
  /\ \E sel \in IOSelections :
       /\ agent_selection' = sel
       /\ workflow' = CreateWorkflowPlan(sel)
       /\ current_workflow' = CreateWorkflowPlan(sel)
  /\ inference' = [selection |-> "parsed", analysis |-> "ok", strategy |-> "ok"]
  /\ pc' = "planned"
  /\ UNCHANGED <<active_agents, idx, execution_log, feedback_files, reports,
                 result, invoked, announced, last_ok, now, call, status_view>>

\* update_workflow_step fails to read or write the plan (except branch,
\* lines 682-684): it returns False and the file keeps its content;
\* _update_step_status goes on
UpdateStepStatusFails(agent_name, status) ==
  /\ workflow' = workflow
  /\ announced' = announced
  /\ last_ok' = FALSE
  /\ now' = now + 1
  /\ status_view' = NoView

SkipStepWriteFails ==
  /\ AtStep
  /\ CurrentStep.agent \notin active_agents
  /\ UpdateStepStatusFails(CurrentStep.agent, "SKIPPED")
  /\ idx' = idx + 1
  /\ UNCHANGED <<pc, current_workflow, active_agents, execution_log,
                 feedback_files, reports, result, invoked,
                 agent_selection, inference, call>>

StartStepWriteFails ==
  /\ AtStep
  /\ CurrentStep.agent \in active_agents
  /\ UpdateStepStatusFails(CurrentStep.agent, "IN_PROGRESS")
  /\ pc' = "exec"
  /\ UNCHANGED <<idx, current_workflow, active_agents, execution_log,
                 feedback_files, reports, result, invoked,
                 agent_selection, inference, call>>

CompleteStepWriteFails ==
  /\ pc = "complete"
  /\ UpdateStepStatusFails(CurrentStep.agent, "COMPLETED")
  /\ idx' = idx + 1
  /\ pc' = "loop"
  /\ UNCHANGED <<current_workflow, active_agents, execution_log, feedback_files,
                 reports, result, invoked,
                 agent_selection, inference, call>>

FailStepWriteFails ==
  /\ pc = "failed"
  /\ UpdateStepStatusFails(CurrentStep.agent, "FAILED")
  /\ IF CurrentStep.required
       THEN pc' = "halted" /\ result' = "False" /\ idx' = idx
       ELSE pc' = "loop" /\ result' = result /\ idx' = idx + 1
  /\ UNCHANGED <<current_workflow, active_agents, execution_log, feedback_files,
                 reports, invoked,
                 agent_selection, inference, call>>

NextIO ==
  \/ CreateIntelligentPlanIO
  \/ InstantiateSelectedAgents
  \/ SkipStep
  \/ StartStep
  \/ ExecuteAgent
  \/ ProcessAgentFeedback
  \/ CompleteStep
  \/ FailStep
  \/ FinishPipeline
  \/ SkipStepWriteFails
  \/ StartStepWriteFails
  \/ CompleteStepWriteFails
  \/ FailStepWriteFails

SpecIO == Init /\ [][NextIO]_vars

\* ------------------------ the run on plans that may name an agent twice
MaxDupSteps == 2    \* longest plan of a run whose items may repeat an agent

\* parsed selections of at most MaxDupSteps items over the catalog agents,
\* repetitions allowed, selected_agents listing the agents of the items
DupSelections ==
  UNION {{[selected_agents |-> names,
           workflow_sequence |-> [k \in 1..n |-> [agent |-> names[k], skippable |-> f[k]]],
           skipped_agents |-> CatalogWithout(Range(names), 1),
           selection_method |-> "ai", error |-> "none"] :
            names \in [1..n -> Agents], f \in [1..n -> BOOLEAN]} : n \in 0..MaxDupSteps}

\* create_intelligent_plan returning True on one of DupSelections
CreateIntelligentPlanDup ==
  /\ pc = "init"
  /\ \E sel \in DupSelections :
       /\ agent_selection' = sel
       /\ workflow' = CreateWorkflowPlan(sel)
       /\ current_workflow' = CreateWorkflowPlan(sel)
  /\ inference' = [selection |-> "parsed", analysis |-> "ok", strategy |-> "ok"]
  /\ pc' = "planned"
  /\ UNCHANGED <<active_agents, idx, execution_log, feedback_files, reports,
                 result, invoked, announced, last_ok, now, call, status_view>>

NextDup ==
  \/ CreateIntelligentPlanDup
  \/ InstantiateSelectedAgents
  \/ SkipStep
  \/ StartStep
  \/ ExecuteAgent
  \/ ProcessAgentFeedback
  \/ CompleteStep
  \/ FailStep
  \/ FinishPipeline

SpecDup == Init /\ [][NextDup]_vars

\* every executor call, inference call and file operation returns
SpecDupFair == SpecDup /\ WF_vars(NextDup)

\* ----------------------------------------------- the engine called directly
\* the selection of the first n catalog agents, in catalog order, none
\* skippable
ChainSelection(n) ==
  [selected_agents |-> SubSeq(Catalog, 1, n),
   workflow_sequence |-> [k \in 1..n |-> [agent |-> Catalog[k], skippable |-> FALSE]],
   skipped_agents |-> SubSeq(Catalog, n + 1, Len(Catalog)),
   selection_method |-> "ai", error |-> "none"]

\* Selections for the engine on its own: update_workflow_step,
\* _check_next_steps and get_workflow_status read neither required nor
\* selected_agents and treat all agent names alike, so one plan per length
\* is enough
EngineSelections ==
  {ChainSelection(n) : n \in 0..Min(MaxSteps, Cardinality(Agents))}

\* coordinate_processing called on the Coordinator itself
CoordinateProcessing ==
  /\ pc = "init"
  /\ \E sel \in EngineSelections :
       /\ agent_selection' = sel
       /\ workflow' = CreateWorkflowPlan(sel)
  /\ inference' = [selection |-> "parsed", analysis |-> "ok", strategy |-> "ok"]
  /\ status_view' = NoView
  /\ pc' = "planned"
  /\ UNCHANGED <<current_workflow, active_agents, idx, execution_log,
                 feedback_files, reports, result, invoked, announced, last_ok, now,
                 call>>

\* update_workflow_step(agent_name, status) called on the persisted plan by
\* any caller, with any agent and any status, before or after a plan exists
ExternalUpdate ==
  /\ pc \in {"init", "planned"}
  /\ \E agent_name \in Agents, status \in Statuses :
       LET r == UpdateWorkflowStep(workflow, agent_name, status, NoScore, now) IN
       /\ workflow' = r.workflow
       /\ announced' = IF r.ok THEN CheckNextSteps(r.workflow) ELSE announced
       /\ last_ok' = r.ok
  /\ status_view' = NoView
  /\ UNCHANGED <<pc, current_workflow, active_agents, idx, execution_log,
                 feedback_files, reports, result, invoked, now,
                 agent_selection, inference, call>>

NextEngine ==
  \/ CoordinateProcessing
  \/ ExternalUpdate

SpecEngine == Init /\ [][NextEngine]_vars

\* ------------------------------- the engine with get_workflow_status calls
MaxStatusSteps == 2  \* longest plan get_workflow_status is called on

MaxStatusCalls == 2  \* get_workflow_status calls followed between two updates

\* GetWorkflowStatusCall also rewriting the plan file
GetWorkflowStatusCallWriting ==
  /\ pc \in {"init", "planned"}
  /\ status_view.calls < MaxStatusCalls
  /\ status_view' = [calls |-> status_view.calls + 1, result |-> GetWorkflowStatus(workflow)]
  /\ workflow' = [workflow EXCEPT !.step_tracking =
                    [a \in DOMAIN workflow.step_tracking |->
                       [workflow.step_tracking[a] EXCEPT !.completed_at = now]]]
  /\ UNCHANGED <<pc, current_workflow, active_agents, idx, execution_log,
                 feedback_files, reports, result, invoked, announced, last_ok, now,
                 agent_selection, inference, call>>

\* get_workflow_status called on the Coordinator itself
GetWorkflowStatusCall ==
  /\ pc \in {"init", "planned"}
  /\ status_view.calls < MaxStatusCalls
  /\ status_view' = [calls |-> status_view.calls + 1, result |-> GetWorkflowStatus(workflow)]
  /\ UNCHANGED <<pc, workflow, current_workflow, active_agents, idx, execution_log,
                 feedback_files, reports, result, invoked, announced, last_ok, now,
                 agent_selection, inference, call>>

\* coordinate_processing giving a plan of at most MaxStatusSteps steps
CoordinateProcessingShort ==
  /\ pc = "init"
  /\ \E n \in 0..Min(MaxStatusSteps, Cardinality(Agents)) :
       /\ agent_selection' = ChainSelection(n)
       /\ workflow' = CreateWorkflowPlan(ChainSelection(n))
  /\ inference' = [selection |-> "parsed", analysis |-> "ok", strategy |-> "ok"]
  /\ status_view' = NoView
  /\ pc' = "planned"
  /\ UNCHANGED <<current_workflow, active_agents, idx, execution_log,
                 feedback_files, reports, result, invoked, announced, last_ok, now,
                 call>>

NextStatus ==
  \/ CoordinateProcessingShort
  \/ ExternalUpdate
  \/ GetWorkflowStatusCall

SpecStatus == Init /\ [][NextStatus]_vars

\* ------------------------------------- _check_next_steps as a pure function
MaxChain == 4       \* longest plan given to _check_next_steps

\* the plan of ChainSelection(Len(st)) with step k in status st[k]
ChainPlan(st) ==
  LET plan == CreateWorkflowPlan(ChainSelection(Len(st))) IN
  [plan EXCEPT
     !.workflow_steps = [k \in 1..Len(st) |-> [plan.workflow_steps[k] EXCEPT !.status = st[k]]],
     !.step_tracking = [a \in DOMAIN plan.step_tracking |->
        [plan.step_tracking[a] EXCEPT !.status = st[plan.step_tracking[a].step_number]]]]

InitReady ==
  /\ pc = "init"
  /\ \E n \in 0..Min(MaxChain, Len(Catalog)) : \E st \in [1..n -> Statuses] :
       workflow = ChainPlan(st)
  /\ current_workflow = NoWorkflow
  /\ active_agents = {}
  /\ idx = 0
  /\ execution_log = <<>>
  /\ feedback_files = {}
  /\ reports = <<>>
  /\ result = "none"
  /\ invoked = <<>>
  /\ announced = 0
  /\ last_ok = FALSE
  /\ now = 1
  /\ agent_selection = NoSelection
  /\ inference = NoInference
  /\ call = NoCall
  /\ status_view = NoView

ApplyCheckNextSteps ==
  /\ pc = "init"
  /\ announced' = CheckNextSteps(workflow)
  /\ pc' = "checked"
  /\ UNCHANGED <<workflow, current_workflow, active_agents, idx, execution_log,
                 feedback_files, reports, result, invoked, last_ok, now,
                 agent_selection, inference, call, status_view>>

NextReady == ApplyCheckNextSteps

SpecReady == InitReady /\ [][NextReady]_vars

\* ------------------- evaluate_agent_work and generate_coordinator_report as
\* pure functions
MaxEvals == 3       \* longest list given to generate_coordinator_report

\* evaluations as evaluate_complete_pipeline collects them
Evaluations ==
  {WithAgentName(EvaluateAgentWork(a, r), a) : a \in Instantiable, r \in EvaluatorResponses}

NewCall(fn, arg) == [fn |-> fn, arg |-> arg, ret |-> <<>>, returned |-> FALSE]

InitCalls ==
  /\ pc = "init"
  /\ workflow = NoWorkflow
  /\ current_workflow = NoWorkflow
  /\ active_agents = {}
  /\ idx = 0
  /\ execution_log = <<>>
  /\ feedback_files = {}
  /\ reports = <<>>
  /\ result = "none"
  /\ invoked = <<>>
  /\ announced = 0
  /\ last_ok = FALSE
  /\ now = 1
  /\ agent_selection = NoSelection
  /\ inference = NoInference
  /\ \/ \E a \in Agents, r \in EvaluatorResponses :
          call = NewCall("evaluate_agent_work", [agent |-> a, response |-> r])
     \/ \E n \in 0..MaxEvals : \E evals \in [1..n -> Evaluations] :
          call = NewCall("generate_coordinator_report", evals)
  /\ status_view = NoView

ApplyEvaluateAgentWork ==
  /\ call.fn = "evaluate_agent_work"
  /\ ~call.returned
  /\ call' = [call EXCEPT !.ret = EvaluateAgentWork(call.arg.agent, call.arg.response),
                          !.returned = TRUE]
  /\ UNCHANGED <<pc, workflow, current_workflow, active_agents, idx, execution_log,
                 feedback_files, reports, result, invoked, announced, last_ok, now,
                 agent_selection, inference, status_view>>

\* the report is written to a new coordinator_final_report file
ApplyGenerateCoordinatorReport ==
  /\ call.fn = "generate_coordinator_report"
  /\ ~call.returned
  /\ call' = [call EXCEPT !.ret = GenerateCoordinatorReport(call.arg),
                          !.returned = TRUE]
  /\ reports' = Append(reports, GenerateCoordinatorReport(call.arg))
  /\ UNCHANGED <<pc, workflow, current_workflow, active_agents, idx, execution_log,
                 feedback_files, result, invoked, announced, last_ok, now,
                 agent_selection, inference, status_view>>

NextCalls ==
  \/ ApplyEvaluateAgentWork
  \/ ApplyGenerateCoordinatorReport

SpecCalls == InitCalls /\ [][NextCalls]_vars

\* -------------------------------- plan_chunking_strategy (agent_rico.py)
MaxDuration == 6       \* longest video, in seconds
MaxChunkDuration == 4  \* longest chunk_duration, in seconds
MaxChunks == 8         \* iterations of the while loop that are followed

\* start_time at the head of the while loop
StartTime(c) ==
  IF c.ret = <<>> THEN 0
  ELSE c.ret[Len(c.ret)].end_time - c.arg.overlap_seconds

InitChunks ==
  /\ pc = "init"
  /\ workflow = NoWorkflow
  /\ current_workflow = NoWorkflow
  /\ active_agents = {}
  /\ idx = 0
  /\ execution_log = <<>>
  /\ feedback_files = {}
  /\ reports = <<>>
  /\ result = "none"
  /\ invoked = <<>>
  /\ announced = 0
  /\ last_ok = FALSE
  /\ now = 1
  /\ agent_selection = NoSelection
  /\ inference = NoInference
  /\ \E d \in 0..MaxDuration, cd \in 1..MaxChunkDuration :
       \E ov \in 0..(cd - 1) :
         call = NewCall("plan_chunking_strategy",
                        [duration_seconds |-> d, chunk_duration |-> cd,
                         overlap_seconds |-> ov])
  /\ status_view = NoView

\* one iteration of the while loop, lines 244-265; the test of line 264,
\* duration - start_time < chunk_duration * 0.3, is taken in tenths
PlanChunkingIteration ==
  /\ call.fn = "plan_chunking_strategy"
  /\ ~call.returned
  /\ StartTime(call) < call.arg.duration_seconds
  /\ Len(call.ret) < MaxChunks
  /\ LET duration == call.arg.duration_seconds
         chunk_duration == call.arg.chunk_duration
         overlap == call.arg.overlap_seconds
         start_time == StartTime(call)
         end_time == Min(start_time + chunk_duration, duration)
         chunk_info == [chunk_number |-> Len(call.ret) + 1,
                        start_time |-> start_time,
                        end_time |-> end_time,
                        duration |-> end_time - start_time,
                        overlap_next |-> IF end_time < duration THEN overlap ELSE 0]
     IN call' = [call EXCEPT
                   !.ret = Append(call.ret, chunk_info),
                   !.returned = (10 * (duration - (end_time - overlap)) < 3 * chunk_duration)]
  /\ UNCHANGED <<pc, workflow, current_workflow, active_agents, idx, execution_log,
                 feedback_files, reports, result, invoked, announced, last_ok, now,
                 agent_selection, inference, status_view>>

\* the while condition of line 244 is false
PlanChunkingLoopEnds ==
  /\ call.fn = "plan_chunking_strategy"
  /\ ~call.returned
  /\ ~(StartTime(call) < call.arg.duration_seconds)
  /\ call' = [call EXCEPT !.returned = TRUE]
  /\ UNCHANGED <<pc, workflow, current_workflow, active_agents, idx, execution_log,
                 feedback_files, reports, result, invoked, announced, last_ok, now,
                 agent_selection, inference, status_view>>

NextChunks ==
  \/ PlanChunkingIteration
  \/ PlanChunkingLoopEnds

SpecChunks == InitChunks /\ [][NextChunks]_vars

\* every iteration of the loop ends
SpecChunksFair == SpecChunks /\ WF_vars(NextChunks)

\* ------------------------------- update_workflow_step as a pure function
\* the persisted plans update_workflow_step is called on: none, a chain in
\* any statuses, or a fresh plan that names an agent more than once
PersistedPlans ==
  {NoWorkflow}
    \cup UNION {{ChainPlan(st) : st \in [1..n -> Statuses]} :
                  n \in 0..Min(MaxChain, Len(Catalog))}
    \cup {CreateWorkflowPlan(sel) : sel \in DupSelections}

InitUpdate ==
  /\ pc = "init"
  /\ workflow \in PersistedPlans
  /\ current_workflow = NoWorkflow
  /\ active_agents = {}
  /\ idx = 0
  /\ execution_log = <<>>
  /\ feedback_files = {}
  /\ reports = <<>>
  /\ result = "none"
  /\ invoked = <<>>
  /\ announced = 0
  /\ last_ok = FALSE
  /\ now = 1
  /\ agent_selection = NoSelection
  /\ inference = NoInference
  /\ \E a \in ResponseNames, st \in Statuses, fb \in {NoScore, FallbackScore} :
       call = NewCall("update_workflow_step",
                      [agent_name |-> a, status |-> st, feedback_data |-> fb])
  /\ status_view = NoView

ApplyUpdateWorkflowStep ==
  /\ call.fn = "update_workflow_step"
  /\ ~call.returned
  /\ LET r == UpdateWorkflowStep(workflow, call.arg.agent_name, call.arg.status,
                                 call.arg.feedback_data, now) IN
       /\ workflow' = r.workflow
       /\ announced' = IF r.ok THEN CheckNextSteps(r.workflow) ELSE announced
       /\ last_ok' = r.ok
       /\ call' = [call EXCEPT !.ret = r.ok, !.returned = TRUE]
  /\ now' = now + 1
  /\ UNCHANGED <<pc, current_workflow, active_agents, idx, execution_log,
                 feedback_files, reports, result, invoked,
                 agent_selection, inference, status_view>>

NextUpdate == ApplyUpdateWorkflowStep

SpecUpdate == InitUpdate /\ [][NextUpdate]_vars

TypeOK ==
  /\ pc \in {"init", "planned", "aborted", "loop", "exec", "feedback",
             "complete", "failed", "halted", "finished", "checked"}
  /\ result \in {"none", "True", "False"}
  /\ \A k \in 1..Len(workflow.workflow_steps) :
       workflow.workflow_steps[k].status \in Statuses

\* ==================================================================== claims
Steps == workflow.workflow_steps

NumSteps == Len(workflow.workflow_steps)

StatusOf(k) == workflow.workflow_steps[k].status

InvokedSteps == {invoked[e].step : e \in 1..Len(invoked)}

\* steps whose executor was invoked and failed, by their required flag
FailedExecutions(required) ==
  {invoked[e].step : e \in {x \in 1..Len(invoked) :
       /\ ~invoked[x].success
       /\ current_workflow.workflow_steps[invoked[x].step].required = required}}

LastReport == reports[Len(reports)]

\* C1: a step's status becomes IN_PROGRESS only when every step listed in
\* its dependencies has status COMPLETED (for a linear chain: step k never
\* becomes IN_PROGRESS before step k-1 is COMPLETED, also when step k-1
\* ended FAILED or SKIPPED).
C1_InProgressOnlyAfterDependencies ==
  [][\A k \in 1..NumSteps :
       (StatusOf(k) # "IN_PROGRESS" /\ workflow'.workflow_steps[k].status = "IN_PROGRESS")
         => DependenciesMet(Steps, k)]_vars

LegalTransition(old, new) ==
  \/ old = "PENDING" /\ new = "IN_PROGRESS"
  \/ old = "IN_PROGRESS" /\ new \in {"COMPLETED", "FAILED"}
  \/ new = "SKIPPED"

\* C2: update_workflow_step changes a step's status only along the legal
\* transitions PENDING->IN_PROGRESS, IN_PROGRESS->COMPLETED,
\* IN_PROGRESS->FAILED and any->SKIPPED; any other request leaves the stored
\* status unchanged.
C2_OnlyLegalTransitions ==
  [][\A k \in 1..NumSteps :
       workflow'.workflow_steps[k].status # StatusOf(k)
         => LegalTransition(StatusOf(k), workflow'.workflow_steps[k].status)]_vars

C4_State ==
  \A s \in FailedExecutions(TRUE) :
    ~(pc = "failed" /\ idx = s) =>
      /\ StatusOf(s) = "FAILED"
      /\ pc = "halted"
      /\ result = "False"
      /\ \A j \in (s + 1)..NumSteps : StatusOf(j) = "PENDING" /\ j \notin InvokedSteps

\* marking the failed step changes the status of no other step
C4_Step ==
  pc = "failed" =>
    \A j \in 1..NumSteps : j # idx => workflow'.workflow_steps[j].status = StatusOf(j)

C6_ReportOnRequiredFailure ==
  pc = "halted" =>
    /\ reports # <<>>
    /\ LastReport.pipeline_status = "NEEDS_ATTENTION"

RECURSIVE CompletedAgents(_)
CompletedAgents(steps) ==
  IF steps = <<>> THEN <<>>
  ELSE IF steps[1].status = "COMPLETED"
    THEN <<steps[1].agent>> \o CompletedAgents(Tail(steps))
    ELSE CompletedAgents(Tail(steps))

ReportAgents ==
  IF reports = <<>> THEN <<>>
  ELSE [k \in 1..Len(LastReport.agent_evaluations) |->
          LastReport.agent_evaluations[k].agent_name]

ReadySteps(steps) ==
  {k \in 1..Len(steps) : steps[k].status = "PENDING" /\ DependenciesMet(steps, k)}

\* no PENDING step has all its dependencies COMPLETED, yet some step is not
\* terminal
Stalled ==
  /\ ReadySteps(Steps) = {}
  /\ \E k \in 1..NumSteps : StatusOf(k) \notin Terminal

LowestReady(steps) ==
  IF ReadySteps(steps) = {} THEN 0
  ELSE LET k == CHOOSE r \in ReadySteps(steps) : \A r2 \in ReadySteps(steps) : r <= r2
       IN steps[k].step_number

\* C9: _check_next_steps designates exactly the lowest-numbered PENDING step
\* whose dependencies are all COMPLETED when there is one, and no step
\* otherwise.
C9_DesignatesLowestReady ==
  pc = "checked" => announced = LowestReady(Steps)

\* C10: a plan has as many workflow_steps as selected_agents and the i-th
\* step's agent is the i-th selected agent.
C10_StepsMatchSelectedAgents ==
  workflow.exists =>
    /\ NumSteps = Len(workflow.selected_agents)
    /\ \A k \in 1..NumSteps : Steps[k].agent = workflow.selected_agents[k]

\* C11: every plan built by create_workflow_plan numbers its steps 1..N in
\* list order, gives step 1 no dependencies and step n > 1 exactly the
\* dependency n-1, and makes a step required unless the item of the
\* selection it was built from is marked skippable
C11_PlanIsLinearChain ==
  workflow.exists =>
    /\ NumSteps = Len(agent_selection.workflow_sequence)
    /\ \A k \in 1..NumSteps :
         /\ Steps[k].step_number = k
         /\ Steps[k].agent = agent_selection.workflow_sequence[k].agent
         /\ Steps[k].dependencies = (IF k = 1 THEN {} ELSE {k - 1})
         /\ Steps[k].dependencies \subseteq 1..(k - 1)
         /\ Steps[k].required = ~agent_selection.workflow_sequence[k].skippable

C11_Witness ==
  /\ workflow.exists
  /\ NumSteps = 3
  /\ agent_selection.workflow_sequence[2].skippable
  /\ ~agent_selection.workflow_sequence[3].skippable
  /\ ~Steps[2].required
  /\ Steps[3].required
  /\ Steps[3].dependencies = {2}

\* C12: when the inference call of select_required_agents fails (non-200
\* status, network error, response that cannot be parsed), the selection
\* returned is the whole catalog in its default order, with one workflow
\* item per agent in the same order, no skipped agent, and the failure
\* recorded
C12_SelectorFallback ==
  inference.selection \in InferenceFailures =>
    /\ agent_selection.selected_agents = <<"RICO", "DAVID", "SAIMON", "CLOE", "SHEYLA">>
    /\ AgentsOf(agent_selection.workflow_sequence) = agent_selection.selected_agents
    /\ agent_selection.skipped_agents = <<>>
    /\ agent_selection.error = inference.selection

C12_Witness ==
  /\ inference.selection = "http_error"
  /\ pc = "finished"
  /\ NumSteps = 5
  /\ StatusOf(1) = "COMPLETED"

\* C13: a parsed inference response naming a stage outside the catalog
\* makes the selector fall back to the full catalog, so that neither the
\* selection nor any step of a plan names an agent outside the catalog
C13_OnlyCatalogAgents ==
  /\ \A k \in 1..Len(agent_selection.workflow_sequence) :
       agent_selection.workflow_sequence[k].agent \in Range(Catalog)
  /\ Range(agent_selection.selected_agents) \subseteq Range(Catalog)
  /\ \A k \in 1..NumSteps : Steps[k].agent \in Range(Catalog)

\* C14: whatever the inference calls of plan creation return,
\* coordinate_processing / create_intelligent_plan ends with a plan
\* persisted and loaded, and the pipeline goes on to execution
C14_PlanCreationNeverFatal ==
  pc # "init" => workflow.exists /\ current_workflow.exists

Evaluated == call.fn = "evaluate_agent_work" /\ call.returned

\* C15: when the inference call of the evaluator fails or its response
\* gives no evaluation object, evaluate_agent_work returns an evaluation of
\* the same agent with score 0.7, decision APPROVE, no reprocessing and the
\* fallback marker; a parsed evaluation is returned as parsed and does not
\* carry the marker
C15_EvaluatorFallback ==
  Evaluated =>
    IF call.arg.response \in EvaluatorFailures
      THEN /\ call.ret.agent_evaluated = call.arg.agent
           /\ call.ret.overall_score = 7
           /\ call.ret.coordinator_decision = "APPROVE"
           /\ ~call.ret.requires_reprocessing
           /\ call.ret.evaluation_method = "fallback_basic"
      ELSE /\ call.ret = ParsedEvaluation(call.arg.agent, call.arg.response)
           /\ call.ret.evaluation_method # "fallback_basic"

C15_Witness ==
  /\ Evaluated
  /\ call.arg.response = "not_an_object"
  /\ call.arg.agent = "DAVID"
  /\ call.ret.agent_evaluated = "DAVID"
  /\ call.ret.evaluation_method = "fallback_basic"

Reported == call.fn = "generate_coordinator_report" /\ call.returned

\* C16: the average score of a report is the arithmetic mean of the
\* overall scores of the evaluations given (here in hundredths of a tenth,
\* rounded down); for the empty list it is 0 and the report is marked as
\* having no data instead of reading as a completed pipeline
C16_MeanAndNoDataFlag ==
  Reported =>
    LET n == Len(call.arg)
        avg == call.ret.average_pipeline_score
        total == SumScores(call.arg) * 100
    IN /\ n > 0 => avg * n <= total /\ total < (avg + 1) * n
       /\ n = 0 => avg = 0 /\ call.ret.pipeline_status # "COMPLETED"

\* C17: the pipeline_status of a report is COMPLETED exactly when every
\* evaluation of the list has coordinator_decision APPROVE, and
\* NEEDS_ATTENTION otherwise
C17_CompletedIffAllApproved ==
  Reported =>
    /\ call.ret.pipeline_status \in {"COMPLETED", "NEEDS_ATTENTION"}
    /\ call.ret.pipeline_status = "COMPLETED"
         <=> \A k \in 1..Len(call.arg) : call.arg[k].coordinator_decision = "APPROVE"

C17_Witness ==
  /\ Reported
  /\ Len(call.arg) = 3
  /\ call.arg[1].coordinator_decision = "APPROVE"
  /\ call.arg[2].coordinator_decision = "CONDITIONAL_APPROVE"
  /\ call.arg[3].coordinator_decision = NoDecision
  /\ call.ret.pipeline_status = "NEEDS_ATTENTION"

\* the entries of execution_log for agent a
LogEntriesOf(a) == {k \in 1..Len(execution_log) : execution_log[k].agent = a}

\* C18: a step that is COMPLETED after its feedback was evaluated carries
\* the overall score of that evaluation as evaluation_score in the plan,
\* and a step has an evaluation_score only if its feedback was evaluated
C18_ScoreStoredOnCompletion ==
  \A k \in 1..NumSteps :
    LET tracking == workflow.step_tracking[Steps[k].agent] IN
    /\ StatusOf(k) = "COMPLETED" =>
         \A e \in LogEntriesOf(Steps[k].agent) :
           tracking.evaluation_score = execution_log[e].evaluation_score
    /\ tracking.evaluation_score # NoScore => LogEntriesOf(Steps[k].agent) # {}

C20_PersistedStatusIsReached ==
  /\ pc = "exec" => StatusOf(idx) = "IN_PROGRESS"
  /\ \A k \in 1..Len(invoked) :
       StatusOf(invoked[k].step) =
         IF k = Len(invoked) /\ pc \in {"feedback", "complete", "failed"}
           THEN "IN_PROGRESS"
           ELSE IF invoked[k].success THEN "COMPLETED" ELSE "FAILED"
  /\ pc \in {"loop", "exec", "feedback", "complete", "failed", "halted", "finished"} =>
       \A j \in 1..(idx - 1) : j \notin InvokedSteps => StatusOf(j) = "SKIPPED"

\* the result of a get_workflow_status call made on the plan as it is now
StatusResult == status_view.result

\* C21: get_workflow_status reports the number of steps, of COMPLETED steps
\* and of FAILED steps of the plan, the share of COMPLETED steps as
\* progress (in whole percents, 0 for a plan without steps), and
\* current_status COMPLETED exactly when every step is COMPLETED; so a plan
\* with a FAILED or SKIPPED step is never reported COMPLETED
C21_StatusProjection ==
  (status_view.calls >= 1 /\ workflow.exists) =>
    LET completed == {k \in 1..NumSteps : StatusOf(k) = "COMPLETED"}
        failed == {k \in 1..NumSteps : StatusOf(k) = "FAILED"}
        pct == StatusResult.progress_percentage
    IN /\ StatusResult.total_steps = NumSteps
       /\ StatusResult.completed_steps = Cardinality(completed)
       /\ StatusResult.failed_steps = Cardinality(failed)
       /\ StatusResult.completed_steps + StatusResult.failed_steps <= StatusResult.total_steps
       /\ NumSteps = 0 => pct = 0
       /\ NumSteps > 0 =>
            /\ pct * NumSteps <= Cardinality(completed) * 100
            /\ Cardinality(completed) * 100 < (pct + 1) * NumSteps
       /\ StatusResult.current_status \in {"COMPLETED", "IN_PROGRESS"}
       /\ StatusResult.current_status = "COMPLETED"
            <=> \A k \in 1..NumSteps : StatusOf(k) = "COMPLETED"
       /\ (\E k \in 1..NumSteps : StatusOf(k) \in {"FAILED", "SKIPPED"})
            => StatusResult.current_status # "COMPLETED"

C21_Witness ==
  /\ status_view.calls = 1
  /\ NumSteps = 2
  /\ StatusOf(1) = "COMPLETED"
  /\ StatusOf(2) = "SKIPPED"
  /\ StatusResult.completed_steps = 1
  /\ StatusResult.progress_percentage = 50
  /\ StatusResult.current_status = "IN_PROGRESS"

\* the evaluations of agent a's feedback in the final report of the run
ReportEvaluationsOf(a) ==
  IF reports = <<>> THEN {}
  ELSE {k \in 1..Len(LastReport.agent_evaluations) :
          LastReport.agent_evaluations[k].agent_name = a}

\* C22: in a finished run the feedback of every completed step has been
\* evaluated exactly once, counting the evaluation made when the step
\* completed and those made for the final report
C22_FeedbackEvaluatedOnce ==
  pc = "finished" =>
    \A k \in 1..NumSteps :
      StatusOf(k) = "COMPLETED" =>
        Cardinality(LogEntriesOf(Steps[k].agent))
          + Cardinality(ReportEvaluationsOf(Steps[k].agent)) = 1

AllTerminal == \A k \in 1..NumSteps : StatusOf(k) \in Terminal

\* C25: a final report exists only when every step is terminal, and it
\* aggregates exactly the evaluations collected in the loop: one per log
\* entry, in order, with the same agent, score and decision
C25_ReportIsLoopEvaluations ==
  /\ reports # <<>> => AllTerminal
  /\ pc = "finished" =>
       IF execution_log = <<>> THEN reports = <<>>
       ELSE /\ reports # <<>>
            /\ Len(LastReport.agent_evaluations) = Len(execution_log)
            /\ \A k \in 1..Len(execution_log) :
                 /\ LastReport.agent_evaluations[k].agent_name = execution_log[k].agent
                 /\ ScoreOf(LastReport.agent_evaluations[k]) = execution_log[k].evaluation_score
                 /\ LastReport.agent_evaluations[k].coordinator_decision
                      = execution_log[k].coordinator_decision

\* C26: execute_pipeline returns True only if every required step of the
\* plan is COMPLETED; a required step that was SKIPPED because its agent
\* could not be instantiated keeps the run from reporting success
C26_SuccessOnlyIfRequiredCompleted ==
  pc = "finished" =>
    \A k \in 1..NumSteps : Steps[k].required => StatusOf(k) = "COMPLETED"

\* C23: no step has its executor invoked twice, and an executor is invoked
\* only for a step whose persisted status is IN_PROGRESS
C23_NoDoubleInvocation ==
  \A a, b \in 1..Len(invoked) : a # b => invoked[a].step # invoked[b].step

C23_InvokedInProgress ==
  invoked' # invoked => idx \in 1..NumSteps /\ StatusOf(idx) = "IN_PROGRESS"

C23_ExecutorOncePerStepInProgress ==
  []C23_NoDoubleInvocation /\ [][C23_InvokedInProgress]_vars

\* C27: the two copies of each step's status agree and step_tracking has
\* exactly one entry per step
C27_TrackingAgreesWithSteps ==
  workflow.exists =>
    /\ Cardinality(DOMAIN workflow.step_tracking) = NumSteps
    /\ \A k \in 1..NumSteps :
         /\ Steps[k].agent \in DOMAIN workflow.step_tracking
         /\ workflow.step_tracking[Steps[k].agent].status = StatusOf(k)
         /\ workflow.step_tracking[Steps[k].agent].step_number = k

\* C28: during a run a terminal status of a step never changes and a
\* completed_at that is set is never overwritten
C28_TerminalIsAbsorbing ==
  [][(workflow.exists /\ workflow'.exists) =>
       /\ \A k \in 1..NumSteps :
            StatusOf(k) \in Terminal =>
              workflow'.workflow_steps[k].status = StatusOf(k)
       /\ \A a \in DOMAIN workflow.step_tracking :
            /\ workflow.step_tracking[a].status \in Terminal =>
                 workflow'.step_tracking[a].status = workflow.step_tracking[a].status
            /\ workflow.step_tracking[a].completed_at # NoTime =>
                 workflow'.step_tracking[a].completed_at
                   = workflow.step_tracking[a].completed_at]_vars

\* C24: every run of execute_pipeline ends: once the loop has started, the
\* run eventually halts on the failure of a required step or returns with
\* every step of the plan COMPLETED, FAILED or SKIPPED (none PENDING or
\* IN_PROGRESS)
C24_RunTerminates ==
  (pc = "loop") ~> (pc = "halted" \/ (pc = "finished" /\ AllTerminal))

ChunksPlan == call.ret

\* the chunks planned so far start at 0 and leave no gap between them
ChunksContiguous ==
  /\ ChunksPlan # <<>> => ChunksPlan[1].start_time = 0
  /\ \A k \in 2..Len(ChunksPlan) :
       ChunksPlan[k].start_time <= ChunksPlan[k - 1].end_time

\* the plan returned covers [0, duration]
ChunksCover ==
  (call.returned /\ call.arg.duration_seconds > 0) =>
    /\ ChunksPlan # <<>>
    /\ ChunksContiguous
    /\ ChunksPlan[Len(ChunksPlan)].end_time = call.arg.duration_seconds

\* C30: for duration > 0, chunk_duration > 0 and 0 <= overlap <
\* chunk_duration, plan_chunking_strategy returns, and the chunks it
\* returns start at 0, each start no later than the end of the chunk
\* before, and the last one ends at the duration of the video
C30_ChunksCoverVideo == <>call.returned /\ []ChunksCover

\* C29: update_workflow_step returns False and leaves the persisted plan as
\* it was when there is no plan or the named agent has no step_tracking
\* entry; when it returns True, the tracking entries of the other agents and
\* the steps of the other agents are as before, and so is everything of the
\* plan but workflow_steps and step_tracking
UpdateReturns ==
  call.fn = "update_workflow_step" /\ ~call.returned /\ call'.returned

BadUpdateInput ==
  ~workflow.exists \/ call.arg.agent_name \notin DOMAIN workflow.step_tracking

OnlyNamedAgentChanged ==
  LET a == call.arg.agent_name IN
  /\ [workflow' EXCEPT !.workflow_steps = <<>>, !.step_tracking = <<>>]
       = [workflow EXCEPT !.workflow_steps = <<>>, !.step_tracking = <<>>]
  /\ DOMAIN workflow'.step_tracking = DOMAIN workflow.step_tracking
  /\ \A b \in DOMAIN workflow.step_tracking \ {a} :
       workflow'.step_tracking[b] = workflow.step_tracking[b]
  /\ Len(workflow'.workflow_steps) = Len(workflow.workflow_steps)
  /\ \A k \in 1..Len(workflow.workflow_steps) :
       workflow.workflow_steps[k].agent # a
         => workflow'.workflow_steps[k] = workflow.workflow_steps[k]

C29_UpdateStep ==
  UpdateReturns =>
    /\ BadUpdateInput => (call'.ret = FALSE /\ workflow' = workflow)
    /\ call'.ret = TRUE => OnlyNamedAgentChanged

C29_UpdateFailsWithoutSideEffects == [][C29_UpdateStep]_vars

\* a three-step plan with work done, updated for an agent it does not track
C29_WitnessRejected ==
  /\ call.fn = "update_workflow_step" /\ call.returned /\ call.ret = FALSE
  /\ workflow.exists
  /\ Len(workflow.workflow_steps) = 3
  /\ workflow.workflow_steps[1].status = "COMPLETED"
  /\ call.arg.agent_name \notin DOMAIN workflow.step_tracking

====
